---- MODULE Spec2Model ----
(***************************************************************************)
(* velruse standalone app (src/velruse/app/__init__.py): the bootstrap     *)
(* (make_app, includeme, find_providers, load_provider) and the three      *)
(* views (auth_complete_view, auth_denied_view, auth_info_view) working    *)
(* against the key/value Store.                                            *)
(*                                                                         *)
(* Python strings that the code slices, splits or concatenates (settings   *)
(* keys, provider names, impl names) are sequences of one-character        *)
(* strings.  Values the code only passes along are TLA+ strings or         *)
(* records.                                                                *)
(***************************************************************************)
EXTENDS Integers, Sequences, FiniteSets, TLC

VARIABLES
    settings,        \* config.registry.settings: key -> value
    bootpc,          \* position of make_app / includeme
    pending,         \* providers the loop of includeme has not yet visited
    registrations,   \* calls loader(prefix=...) made by load_provider, in order
    included,        \* provider modules passed to config.include
    velruse_store,   \* config.registry.velruse_store
    storeRegs,       \* number of assignments of registry.velruse_store
    views,           \* views registered by config.add_view
    app,             \* TRUE once make_app has returned the WSGI application
    error,           \* the exception that ended make_app, or NoError
    store,           \* contents of the Store: key -> [value, expires]
    now,             \* the clock the Store reads, in seconds
    issued,          \* tokens generate_token has returned so far
    req,             \* relay requests in flight: slot -> position and locals
    handed,          \* relay responses sent to the browser
    lastInfo         \* the last response of auth_info_view

vars == <<settings, bootpc, pending, registrations, included, velruse_store,
          storeRegs, views, app, error, store, now, issued, req, handed,
          lastInfo>>

bootVars == <<settings, bootpc, pending, registrations, included,
              velruse_store, storeRegs, views, app, error>>

serveVars == <<store, now, issued, req, handed, lastInfo>>

---------------------------------------------------------------------------
(* Bounds of the model. *)

\* number of keys in the settings handed to make_app
MaxKeys == 3
\* number of distinct tokens generate_token can return
MaxTokens == 2
\* relay requests in flight at once
MaxReq == 2
\* the clock stops advancing here
MaxTime == 300

---------------------------------------------------------------------------
(* String literals of the source. *)

S_bitbucket == <<"b", "i", "t", "b", "u", "c", "k", "e", "t">>
S_douban == <<"d", "o", "u", "b", "a", "n">>
S_facebook == <<"f", "a", "c", "e", "b", "o", "o", "k">>
S_github == <<"g", "i", "t", "h", "u", "b">>
S_google == <<"g", "o", "o", "g", "l", "e">>
S_google_oauth2 == <<"g", "o", "o", "g", "l", "e", "_", "o", "a", "u", "t", "h", "2">>
S_lastfm == <<"l", "a", "s", "t", "f", "m">>
S_linkedin == <<"l", "i", "n", "k", "e", "d", "i", "n">>
S_live == <<"l", "i", "v", "e">>
S_qq == <<"q", "q">>
S_renren == <<"r", "e", "n", "r", "e", "n">>
S_taobao == <<"t", "a", "o", "b", "a", "o">>
S_twitter == <<"t", "w", "i", "t", "t", "e", "r">>
S_weibo == <<"w", "e", "i", "b", "o">>
S_openid == <<"o", "p", "e", "n", "i", "d">>
S_yahoo == <<"y", "a", "h", "o", "o">>
S_endpoint == <<"e", "n", "d", "p", "o", "i", "n", "t">>
S_setup == <<"s", "e", "t", "u", "p">>
S_store == <<"s", "t", "o", "r", "e">>
S_store_store == <<"s", "t", "o", "r", "e", ".", "s", "t", "o", "r", "e">>
S_memory == <<"m", "e", "m", "o", "r", "y">>
S_provider_dot == <<"p", "r", "o", "v", "i", "d", "e", "r", ".">>
S_dot_impl == <<".", "i", "m", "p", "l">>
S_dot == <<".">>

\* Python's None where a string is expected: no string has a two-character
\* element, so it differs from every string.
None == <<"None">>

\* dict.get(key) and dict.get(key, default)
Get(d, k) == IF k \in DOMAIN d THEN d[k] ELSE None
GetDefault(d, k, default) == IF k \in DOMAIN d THEN d[k] ELSE default

\* Python truth value of a string or None
Falsy(v) == v = None \/ v = <<>>

\* x or y
Or(x, y) == IF Falsy(x) THEN y ELSE x

\* k.startswith(p)
StartsWith(k, p) == Len(k) >= Len(p) /\ SubSeq(k, 1, Len(p)) = p

\* k[n:]
SliceFrom(k, n) == SubSeq(k, n + 1, Len(k))

\* s.split('.', 1)[0]: the text before the first '.', all of s when it has none
SplitFirst(s) ==
    LET dots == {i \in 1..Len(s) : s[i] = "."}
    IN  IF dots = {} THEN s
        ELSE SubSeq(s, 1, (CHOOSE i \in dots : \A j \in dots : i <= j) - 1)

---------------------------------------------------------------------------
(* The provider dispatcher. *)

settings_adapter ==
       (S_bitbucket :> "add_bitbucket_login_from_settings")
    @@ (S_douban :> "add_douban_login_from_settings")
    @@ (S_facebook :> "add_facebook_login_from_settings")
    @@ (S_github :> "add_github_login_from_settings")
    @@ (S_google :> "add_google_login_from_settings")
    @@ (S_google_oauth2 :> "add_google_oauth2_login_from_settings")
    @@ (S_lastfm :> "add_lastfm_login_from_settings")
    @@ (S_linkedin :> "add_linkedin_login_from_settings")
    @@ (S_live :> "add_live_login_from_settings")
    @@ (S_qq :> "add_qq_login_from_settings")
    @@ (S_renren :> "add_renren_login_from_settings")
    @@ (S_taobao :> "add_taobao_login_from_settings")
    @@ (S_twitter :> "add_twitter_login_from_settings")
    @@ (S_weibo :> "add_weibo_login_from_settings")
    @@ (S_openid :> "add_openid_login_from_settings")
    @@ (S_yahoo :> "add_yahoo_login_from_settings")

\* find_providers: the text between 'provider.' (9 characters, k[9:]) and the
\* next '.', for every key that starts with 'provider.'
find_providers(s) ==
    {SplitFirst(SliceFrom(k, 9)) :
        k \in {k \in DOMAIN s : StartsWith(k, S_provider_dot)}}

\* 'provider.%s.impl' % provider and 'provider.%s.' % provider
ImplKey(provider) == S_provider_dot \o provider \o S_dot_impl
Prefix(provider) == S_provider_dot \o provider \o S_dot

\* line 145 falling back to the provider's name only when the key is absent
resolve_impl_none_only(s, provider) ==
    IF Get(s, ImplKey(provider)) = None
    THEN provider
    ELSE Get(s, ImplKey(provider))

\* line 145: impl = settings.get('provider.%s.impl' % provider) or provider
resolve_impl(s, provider) == Or(Get(s, ImplKey(provider)), provider)

\* line 147: login_cfg = settings_adapter.get(impl), "" standing for None
login_cfg_of(impl) == GetDefault(settings_adapter, impl, "")

NoError == "none"
ConfigurationError == "ConfigurationError"

\* load_provider with the loader looked up and called before the check of
\* login_cfg
load_provider_call_first(s, regs, provider) ==
    LET impl == resolve_impl(s, provider)
        login_cfg == login_cfg_of(impl)
        called == Append(regs, [loader |-> login_cfg,
                                prefix |-> Prefix(provider)])
    IN  [raised |-> login_cfg = "", regs |-> called]

\* load_provider passing the prefix of the impl instead of the provider's
load_provider_impl_prefix(s, regs, provider) ==
    LET impl == resolve_impl(s, provider)
        login_cfg == login_cfg_of(impl)
    IN  IF login_cfg = ""
        THEN [raised |-> TRUE, regs |-> regs]
        ELSE [raised |-> FALSE,
              regs |-> Append(regs, [loader |-> login_cfg,
                                     prefix |-> Prefix(impl)])]

\* load_provider: the registrations after the call and whether it raised
load_provider(s, regs, provider) ==
    LET impl == resolve_impl(s, provider)
        login_cfg == login_cfg_of(impl)
    IN  IF login_cfg = ""
        THEN [raised |-> TRUE, regs |-> regs]
        ELSE [raised |-> FALSE,
              regs |-> Append(regs, [loader |-> login_cfg,
                                     prefix |-> Prefix(provider)])]

---------------------------------------------------------------------------
(* Settings handed to make_app. *)

K_provider_facebook_key == <<"p", "r", "o", "v", "i", "d", "e", "r", ".", "f", "a", "c", "e", "b", "o", "o", "k", ".", "k", "e", "y">>
K_provider_tw_impl == <<"p", "r", "o", "v", "i", "d", "e", "r", ".", "t", "w", ".", "i", "m", "p", "l">>
K_other_setting == <<"o", "t", "h", "e", "r", ".", "s", "e", "t", "t", "i", "n", "g">>
K_provider_tw1_impl == <<"p", "r", "o", "v", "i", "d", "e", "r", ".", "t", "w", "1", ".", "i", "m", "p", "l">>
K_provider_tw2_impl == <<"p", "r", "o", "v", "i", "d", "e", "r", ".", "t", "w", "2", ".", "i", "m", "p", "l">>
K_provider_bogus_key == <<"p", "r", "o", "v", "i", "d", "e", "r", ".", "b", "o", "g", "u", "s", ".", "k", "e", "y">>
K_provider_github == <<"p", "r", "o", "v", "i", "d", "e", "r", ".", "g", "i", "t", "h", "u", "b">>
K_provider_ == <<"p", "r", "o", "v", "i", "d", "e", "r", ".">>
K_providerx_y == <<"p", "r", "o", "v", "i", "d", "e", "r", "x", ".", "y">>
K_provider_facebook_impl == <<"p", "r", "o", "v", "i", "d", "e", "r", ".", "f", "a", "c", "e", "b", "o", "o", "k", ".", "i", "m", "p", "l">>
K_provider_fb_impl == <<"p", "r", "o", "v", "i", "d", "e", "r", ".", "f", "b", ".", "i", "m", "p", "l">>
V_url == <<"h", "t", "t", "p", ":", "/", "/", "h">>
V_myapp_setup == <<"m", "y", "a", "p", "p", ".", "s", "e", "t", "u", "p">>
V_nosuch == <<"n", "o", "s", "u", "c", "h">>
V_x == <<"x">>
V_y == <<"y">>
N_tw == <<"t", "w">>
N_tw1 == <<"t", "w", "1">>
N_tw2 == <<"t", "w", "2">>
N_fb == <<"f", "b">>
N_bogus == <<"b", "o", "g", "u", "s">>

\* key/value pairs the bootstrap is exercised with
BootItems ==
    { <<S_endpoint, V_url>>, <<S_endpoint, <<>> >>,
      <<S_setup, V_myapp_setup>>,
      <<K_provider_facebook_key, V_x>>,
      <<K_provider_facebook_impl, <<>> >>,
      <<K_provider_tw_impl, S_twitter>>, <<K_provider_tw_impl, <<>> >>,
      <<K_provider_tw1_impl, S_twitter>>, <<K_provider_tw2_impl, S_twitter>>,
      <<K_provider_bogus_key, V_x>>,
      <<K_provider_fb_impl, V_nosuch>>,
      <<K_provider_github, V_x>>,
      <<K_provider_, V_x>>,
      <<K_providerx_y, V_x>>,
      <<K_other_setting, V_y>> }

\* key/value pairs the serving application is exercised with
ServeItems ==
    { <<S_endpoint, V_url>>, <<S_endpoint, <<>> >>,
      <<S_setup, V_myapp_setup>>,
      <<K_provider_bogus_key, V_x>> }

ItemKeys(S) == {it[1] : it \in S}

AsDict(S) == [k \in ItemKeys(S) |-> (CHOOSE it \in S : it[1] = k)[2]]

\* every dict of at most n of the items, no key twice
SettingsFrom(items, n) ==
    {AsDict(S) : S \in {S \in SUBSET items :
                          /\ Cardinality(S) <= n
                          /\ Cardinality(ItemKeys(S)) = Cardinality(S)}}

---------------------------------------------------------------------------
(* Bootstrap: make_app and includeme. *)

\* the function object default_setup, as a value of `setup`
default_setup_ref == <<"default_setup">>
\* the Store a custom setup function registers
CustomStore == <<"custom">>

AuthCompleteView ==
    [view |-> "auth_complete_view", context |-> "velruse.AuthenticationComplete"]
AuthDeniedView ==
    [view |-> "auth_denied_view", context |-> "velruse.AuthenticationDenied"]
AuthInfoView ==
    [view |-> "auth_info_view", name |-> "auth_info",
     request_param |-> "format=json", renderer |-> "json"]

\* line 162: setup = settings.get('setup') or default_setup
setup_of(s) == Or(Get(s, S_setup), default_setup_ref)

\* line 111: config.registry.velruse_store = storage
register_velruse_store(storage) ==
    /\ velruse_store' = storage
    /\ storeRegs' = storeRegs + 1

\* lines 95-99 of default_setup (through config.include, line 164)
default_setup ==
    /\ bootpc = "setup"
    /\ setup_of(settings) = default_setup_ref
    /\ LET storage_string == GetDefault(settings, S_store, S_memory)
       IN  /\ settings' = (S_store_store :> storage_string) @@ settings
           /\ register_velruse_store(storage_string)
    /\ bootpc' = "include"
    /\ UNCHANGED <<pending, registrations, included, views, app, error>>
    /\ UNCHANGED serveVars

\* how often a setup function of the host application may call
\* config.register_velruse_store: never, once, twice
CustomSetupCalls == {0, 1, 2}

\* line 164 with `setup` naming a function of the host application, which
\* calls config.register_velruse_store(CustomStore) k times, k of its choosing
custom_setup ==
    /\ bootpc = "setup"
    /\ setup_of(settings) # default_setup_ref
    /\ \E k \in CustomSetupCalls :
        /\ storeRegs' = storeRegs + k
        /\ velruse_store' = IF k = 0 THEN velruse_store ELSE CustomStore
    /\ bootpc' = "include"
    /\ UNCHANGED <<settings, pending, registrations, included, views, app, error>>
    /\ UNCHANGED serveVars

\* lines 167-168, and line 171 as far as the call of find_providers
include_providers ==
    /\ bootpc = "include"
    /\ included' = DOMAIN settings_adapter
    /\ pending' = find_providers(settings)
    /\ bootpc' = "load"
    /\ UNCHANGED <<settings, registrations, velruse_store, storeRegs, views, app, error>>
    /\ UNCHANGED serveVars

\* the loop of lines 171-172 with the ConfigurationError of load_provider
\* caught and the loop going on
load_next_provider_swallow ==
    /\ bootpc = "load"
    /\ \E provider \in pending :
        LET r == load_provider(settings, registrations, provider)
        IN  /\ registrations' = r.regs
            /\ pending' = pending \ {provider}
    /\ UNCHANGED <<settings, bootpc, included, velruse_store, storeRegs, views,
                   app, error>>
    /\ UNCHANGED serveVars

\* lines 171-172: one turn of the loop, in the set's iteration order
load_next_provider ==
    /\ bootpc = "load"
    /\ \E provider \in pending :
        LET r == load_provider(settings, registrations, provider)
        IN  /\ registrations' = r.regs
            /\ IF r.raised
               THEN /\ error' = ConfigurationError
                    /\ bootpc' = "failed"
                    /\ pending' = pending
               ELSE /\ error' = error
                    /\ bootpc' = bootpc
                    /\ pending' = pending \ {provider}
    /\ UNCHANGED <<settings, included, velruse_store, storeRegs, views, app>>
    /\ UNCHANGED serveVars

\* the check of line 175 written as settings.get('endpoint') is None
endpoint_is_none(s) == Get(s, S_endpoint) = None

\* line 175: not settings.get('endpoint')
endpoint_missing(s) == Falsy(Get(s, S_endpoint))

\* includeme with the raise of lines 176-177 left out
check_endpoint_no_raise ==
    /\ bootpc = "load"
    /\ pending = {}
    /\ bootpc' = "views"
    /\ UNCHANGED <<settings, pending, registrations, included, velruse_store,
                   storeRegs, views, app, error>>
    /\ UNCHANGED serveVars

\* lines 175-177
check_endpoint ==
    /\ bootpc = "load"
    /\ pending = {}
    /\ IF endpoint_missing(settings)
       THEN error' = ConfigurationError /\ bootpc' = "failed"
       ELSE error' = error /\ bootpc' = "views"
    /\ UNCHANGED <<settings, pending, registrations, included, velruse_store,
                   storeRegs, views, app>>
    /\ UNCHANGED serveVars

\* lines 180-190
add_views ==
    /\ bootpc = "views"
    /\ views' = {AuthCompleteView, AuthDeniedView, AuthInfoView}
    /\ bootpc' = "included"
    /\ UNCHANGED <<settings, pending, registrations, included, velruse_store,
                   storeRegs, app, error>>
    /\ UNCHANGED serveVars

\* line 243: return config.make_wsgi_app()
make_app ==
    /\ bootpc = "included"
    /\ app' = TRUE
    /\ bootpc' = "serving"
    /\ UNCHANGED <<settings, pending, registrations, included, velruse_store,
                   storeRegs, views, error>>
    /\ UNCHANGED serveVars

---------------------------------------------------------------------------
(* The Store and the token generator. *)

\* Python's None as a view's return value or a request parameter
PyNone == [None |-> TRUE]
\* the KeyError storage.retrieve raises
KeyError == [KeyError |-> TRUE]

Tokens == {[tok |-> i] : i \in 1..MaxTokens}

\* generate_token(): the tokens it may return when `used` were returned before
generate_token(used) == Tokens \ used

\* storage.store(key, value, expires=ttl) at time t
StorePut(st, key, value, ttl, t) ==
    (key :> [value |-> value, expires |-> t + ttl]) @@ st

\* storage.retrieve(key) at time t
StoreRetrieve(st, key, t) ==
    IF key \in DOMAIN st /\ t < st[key].expires THEN st[key].value ELSE KeyError

\* redirect_form(endpoint, token)
redirect_form(endpoint, token) ==
    [method |-> "POST", action |-> endpoint, hidden_token |-> token]

\* the json renderer of the auth_info view (line 190): None renders as null
JsonRender(value) ==
    IF value = PyNone THEN [json |-> "null"]
    ELSE [json |-> "object", members |-> value]

EmptyBody == [empty |-> TRUE]

---------------------------------------------------------------------------
(* The relay views. *)

\* velruse.AuthenticationComplete contexts the providers hand over
CompleteContexts ==
    { [provider_type |-> "facebook", provider_name |-> "facebook",
       profile |-> "bob", credentials |-> "oauth-b"] }

\* velruse.AuthenticationDenied contexts
DeniedContexts ==
    { [provider_type |-> "twitter", provider_name |-> "tw",
       reason |-> "user denied"] }

\* expires=30 in place of expires=300
ExpiresThirty == 300 \div 10

\* lines 26 and 40: expires=300
CompleteExpires == 300
DeniedExpires == 300

\* lines 20-25
result_data(context) ==
    [provider_type |-> context.provider_type,
     provider_name |-> context.provider_name,
     profile |-> context.profile,
     credentials |-> context.credentials]

\* error_dict without the provider's type and name
error_dict_reason_only(context) ==
    [error |-> context.reason]

\* lines 35-39
error_dict(context) ==
    [provider_type |-> context.provider_type,
     provider_name |-> context.provider_name,
     error |-> context.reason]

Idle == [pc |-> "idle"]
Slots == 1..MaxReq

Serving(view) == app /\ view \in views

\* a view that raised: the server answers 500
ServerError(view) == [status |-> 500, view |-> view]

\* lines 17-18: endpoint = settings.get('endpoint'); token = generate_token()
auth_complete_view_begin(r) ==
    /\ Serving(AuthCompleteView)
    /\ req[r] = Idle
    /\ \E context \in CompleteContexts, token \in generate_token(issued) :
        /\ req' = [req EXCEPT ![r] =
                     [pc |-> "generated", view |-> "auth_complete_view",
                      context |-> context, token |-> token,
                      endpoint |-> Get(settings, S_endpoint)]]
        /\ issued' = issued \cup {token}
    /\ UNCHANGED <<store, now, handed, lastInfo>>
    /\ UNCHANGED bootVars

\* auth_complete_view with line 26 left out
auth_complete_view_store_skipped(r) ==
    /\ req[r].pc = "generated"
    /\ req[r].view = "auth_complete_view"
    /\ req' = [req EXCEPT ![r] =
                 [pc |-> "stored", view |-> req[r].view,
                  payload |-> result_data(req[r].context),
                  token |-> req[r].token,
                  endpoint |-> req[r].endpoint, storedAt |-> now]]
    /\ UNCHANGED <<store, now, issued, handed, lastInfo>>
    /\ UNCHANGED bootVars

\* auth_complete_view storing under one token made when the module is loaded
auth_complete_view_store_fixed_key(r) ==
    /\ req[r].pc = "generated"
    /\ req[r].view = "auth_complete_view"
    /\ velruse_store # None
    /\ store' = StorePut(store, [tok |-> 1], result_data(req[r].context),
                         CompleteExpires, now)
    /\ req' = [req EXCEPT ![r] =
                 [pc |-> "stored", view |-> req[r].view,
                  payload |-> result_data(req[r].context),
                  token |-> req[r].token,
                  endpoint |-> req[r].endpoint, storedAt |-> now]]
    /\ UNCHANGED <<now, issued, handed, lastInfo>>
    /\ UNCHANGED bootVars

\* lines 19-26: storage = request.registry.velruse_store; storage.store(...)
auth_complete_view_store(r) ==
    /\ req[r].pc = "generated"
    /\ req[r].view = "auth_complete_view"
    /\ IF velruse_store = None
       THEN /\ req' = [req EXCEPT ![r] = Idle]
            /\ handed' = handed \cup {ServerError("auth_complete_view")}
            /\ store' = store
       ELSE /\ store' = StorePut(store, req[r].token,
                                 result_data(req[r].context),
                                 CompleteExpires, now)
            /\ req' = [req EXCEPT ![r] =
                         [pc |-> "stored", view |-> req[r].view,
                          payload |-> result_data(req[r].context),
                          token |-> req[r].token,
                          endpoint |-> req[r].endpoint, storedAt |-> now]]
            /\ handed' = handed
    /\ UNCHANGED <<now, issued, lastInfo>>
    /\ UNCHANGED bootVars

\* lines 27-28: form = redirect_form(endpoint, token); return Response(body=form)
auth_complete_view_respond(r) ==
    /\ req[r].pc = "stored"
    /\ req[r].view = "auth_complete_view"
    /\ handed' = handed \cup
          {[status |-> 200, view |-> req[r].view,
            body |-> redirect_form(req[r].endpoint, req[r].token),
            payload |-> req[r].payload, storedAt |-> req[r].storedAt]}
    /\ req' = [req EXCEPT ![r] = Idle]
    /\ UNCHANGED <<store, now, issued, lastInfo>>
    /\ UNCHANGED bootVars

\* lines 32-33
auth_denied_view_begin(r) ==
    /\ Serving(AuthDeniedView)
    /\ req[r] = Idle
    /\ \E context \in DeniedContexts, token \in generate_token(issued) :
        /\ req' = [req EXCEPT ![r] =
                     [pc |-> "generated", view |-> "auth_denied_view",
                      context |-> context, token |-> token,
                      endpoint |-> Get(settings, S_endpoint)]]
        /\ issued' = issued \cup {token}
    /\ UNCHANGED <<store, now, handed, lastInfo>>
    /\ UNCHANGED bootVars

\* auth_denied_view storing under one token made when the module is loaded
auth_denied_view_store_fixed_key(r) ==
    /\ req[r].pc = "generated"
    /\ req[r].view = "auth_denied_view"
    /\ velruse_store # None
    /\ store' = StorePut(store, [tok |-> 1], error_dict(req[r].context),
                         DeniedExpires, now)
    /\ req' = [req EXCEPT ![r] =
                 [pc |-> "stored", view |-> req[r].view,
                  payload |-> error_dict(req[r].context),
                  token |-> req[r].token,
                  endpoint |-> req[r].endpoint, storedAt |-> now]]
    /\ UNCHANGED <<now, issued, handed, lastInfo>>
    /\ UNCHANGED bootVars

\* lines 34-40
auth_denied_view_store(r) ==
    /\ req[r].pc = "generated"
    /\ req[r].view = "auth_denied_view"
    /\ IF velruse_store = None
       THEN /\ req' = [req EXCEPT ![r] = Idle]
            /\ handed' = handed \cup {ServerError("auth_denied_view")}
            /\ store' = store
       ELSE /\ store' = StorePut(store, req[r].token,
                                 error_dict(req[r].context),
                                 DeniedExpires, now)
            /\ req' = [req EXCEPT ![r] =
                         [pc |-> "stored", view |-> req[r].view,
                          payload |-> error_dict(req[r].context),
                          token |-> req[r].token,
                          endpoint |-> req[r].endpoint, storedAt |-> now]]
            /\ handed' = handed
    /\ UNCHANGED <<now, issued, lastInfo>>
    /\ UNCHANGED bootVars

\* lines 41-42
auth_denied_view_respond(r) ==
    /\ req[r].pc = "stored"
    /\ req[r].view = "auth_denied_view"
    /\ handed' = handed \cup
          {[status |-> 200, view |-> req[r].view,
            body |-> redirect_form(req[r].endpoint, req[r].token),
            payload |-> req[r].payload, storedAt |-> req[r].storedAt]}
    /\ req' = [req EXCEPT ![r] = Idle]
    /\ UNCHANGED <<store, now, issued, lastInfo>>
    /\ UNCHANGED bootVars

---------------------------------------------------------------------------
(* The auth_info view. *)

\* line 52: log.info is given no argument, so the text is logged as written
InvalidTokenLog == "auth_info requested invalid token \"%s\""

\* what the Store holds for a key at time t: never stored, expired or live
KeyState(st, key, t) ==
    IF key \notin DOMAIN st THEN "never"
    ELSE IF t < st[key].expires THEN "live" ELSE "expired"

\* auth_info_view with line 50 written without `return`
auth_info_response_no_return(storage, st, token, t) ==
    IF storage = None
    THEN ServerError("auth_info_view")
    ELSE LET result == StoreRetrieve(st, token, t)
         IN  IF result = KeyError
             THEN [status |-> 400, view |-> "auth_info_view",
                   value |-> PyNone, body |-> JsonRender(PyNone),
                   log |-> <<InvalidTokenLog>>]
             ELSE [status |-> 200, view |-> "auth_info_view",
                   value |-> PyNone, body |-> JsonRender(PyNone),
                   log |-> <<>>]

\* auth_info_view answering 410 for a key the Store still holds but has expired
auth_info_response_gone(storage, st, token, t) ==
    IF storage = None
    THEN ServerError("auth_info_view")
    ELSE LET result == StoreRetrieve(st, token, t)
         IN  IF result = KeyError
             THEN [status |-> IF token \in DOMAIN st THEN 410 ELSE 400,
                   view |-> "auth_info_view",
                   value |-> PyNone, body |-> JsonRender(PyNone),
                   log |-> <<InvalidTokenLog>>]
             ELSE [status |-> 200, view |-> "auth_info_view",
                   value |-> result, body |-> JsonRender(result),
                   log |-> <<>>]

\* lines 47-54 and the json renderer: the response to ?token=<token>, or to a
\* request without the parameter (token = PyNone), at time t
auth_info_response(storage, st, token, t) ==
    IF storage = None
    THEN ServerError("auth_info_view")
    ELSE LET result == StoreRetrieve(st, token, t)
         IN  IF result = KeyError
             THEN [status |-> 400, view |-> "auth_info_view",
                   value |-> PyNone, body |-> JsonRender(PyNone),
                   log |-> <<InvalidTokenLog>>]
             ELSE [status |-> 200, view |-> "auth_info_view",
                   value |-> result, body |-> JsonRender(result),
                   log |-> <<>>]

\* auth_info_view deleting the key it has just read (a one-time token)
auth_info_view_consuming ==
    /\ Serving(AuthInfoView)
    /\ \E token \in Tokens \cup {PyNone} :
        /\ lastInfo' = [token |-> token,
                        was |-> KeyState(store, token, now),
                        response |-> auth_info_response(velruse_store, store,
                                                        token, now)]
        /\ store' = [k \in DOMAIN store \ {token} |-> store[k]]
    /\ UNCHANGED <<now, issued, req, handed>>
    /\ UNCHANGED bootVars

NoResponse == [status |-> 0]

auth_info_view ==
    /\ Serving(AuthInfoView)
    /\ \E token \in Tokens \cup {PyNone} :
        lastInfo' = [token |-> token,
                     was |-> KeyState(store, token, now),
                     response |-> auth_info_response(velruse_store, store,
                                                     token, now)]
    /\ UNCHANGED <<store, now, issued, req, handed>>
    /\ UNCHANGED bootVars

---------------------------------------------------------------------------
(* The clock. *)

\* the clock moves to one second before a time to live of 300 ends, or to
\* its end
TickSteps == {299, 300}

Tick ==
    /\ app
    /\ \E d \in TickSteps :
        /\ now + d <= MaxTime
        /\ now' = now + d
    /\ UNCHANGED <<store, issued, req, handed, lastInfo>>
    /\ UNCHANGED bootVars

---------------------------------------------------------------------------
(* Specifications. *)

InitWith(items) ==
    /\ settings \in SettingsFrom(items, MaxKeys)
    /\ bootpc = "setup"
    /\ pending = {}
    /\ registrations = <<>>
    /\ included = {}
    /\ velruse_store = None
    /\ storeRegs = 0
    /\ views = {}
    /\ app = FALSE
    /\ error = NoError
    /\ store = [k \in {} |-> KeyError]
    /\ now = 0
    /\ issued = {}
    /\ req = [r \in Slots |-> Idle]
    /\ handed = {}
    /\ lastInfo = NoResponse

Init == InitWith(ServeItems)

InitBoot == InitWith(BootItems)

NextBoot ==
    \/ default_setup
    \/ custom_setup
    \/ include_providers
    \/ load_next_provider
    \/ check_endpoint
    \/ add_views
    \/ make_app

Next ==
    \/ NextBoot
    \/ \E r \in Slots : auth_complete_view_begin(r)
    \/ \E r \in Slots : auth_complete_view_store(r)
    \/ \E r \in Slots : auth_complete_view_respond(r)
    \/ \E r \in Slots : auth_denied_view_begin(r)
    \/ \E r \in Slots : auth_denied_view_store(r)
    \/ \E r \in Slots : auth_denied_view_respond(r)
    \/ auth_info_view
    \/ Tick

\* the application, bootstrap and requests
Spec == Init /\ [][Next]_vars

\* the bootstrap alone, over a wider range of settings
SpecBoot == InitBoot /\ [][NextBoot]_vars

---------------------------------------------------------------------------
(* Properties. *)

\* the time to live the specification fixes for every handoff
FixedTTL == 300

\* relay requests that have executed storage.store: those still to respond
\* and those answered
StoredHandoffs ==
    {[token |-> req[r].token, payload |-> req[r].payload,
      storedAt |-> req[r].storedAt] : r \in {r \in Slots : req[r].pc = "stored"}}
    \cup
    {[token |-> h.body.hidden_token, payload |-> h.payload,
      storedAt |-> h.storedAt] : h \in {h \in handed : h.status = 200}}

\* relay responses that carried a token to the browser
Handoffs ==
    {[token |-> h.body.hidden_token, payload |-> h.payload,
      storedAt |-> h.storedAt] : h \in {h \in handed : h.status = 200}}

\* what auth_info_view answers now for ?token=<token>
InfoNow(token) == auth_info_response(velruse_store, store, token, now)

\* C1: an auth_info request presenting the token of a relay request, made
\* right after that request's store with no time elapsed, answers 200 with
\* exactly the payload the relay request built, and logs nothing.
C1_RoundTrip ==
    \A h \in StoredHandoffs :
        h.storedAt = now =>
            /\ InfoNow(h.token).status = 200
            /\ InfoNow(h.token).value = h.payload
            /\ InfoNow(h.token).body = [json |-> "object", members |-> h.payload]
            /\ h.payload \in
                  {[provider_type |-> c.provider_type,
                    provider_name |-> c.provider_name,
                    profile |-> c.profile,
                    credentials |-> c.credentials] : c \in CompleteContexts}
                  \cup
                  {[provider_type |-> c.provider_type,
                    provider_name |-> c.provider_name,
                    error |-> c.reason] : c \in DeniedContexts}

\* C1 witness: an auth_info request made in the second of the store got 200
\* and the payload of a completed authentication.
C1_Witness ==
    /\ lastInfo # NoResponse
    /\ lastInfo.response.status = 200
    /\ \E h \in StoredHandoffs :
        /\ h.token = lastInfo.token
        /\ h.storedAt = now
        /\ lastInfo.response.value = h.payload
        /\ "profile" \in DOMAIN h.payload

\* C2: every payload is stored with a time to live of 300 seconds: a retrieve
\* less than 300 seconds after the store does not fail, and a retrieve 300
\* seconds or more after it fails (auth_info_view answers 400).
C2_Expiry ==
    \A h \in StoredHandoffs :
        /\ store[h.token].expires = h.storedAt + FixedTTL
        /\ now < h.storedAt + FixedTTL =>
              /\ StoreRetrieve(store, h.token, now) # KeyError
              /\ InfoNow(h.token).status = 200
        /\ now >= h.storedAt + FixedTTL =>
              /\ StoreRetrieve(store, h.token, now) = KeyError
              /\ InfoNow(h.token).status = 400

\* C2 witness: a token whose 300 seconds have just ended was asked for and
\* answered 400, while a token stored later is within its 300 seconds and
\* is found.
C2_Witness ==
    /\ \E h \in StoredHandoffs :
        /\ now = h.storedAt + FixedTTL
        /\ lastInfo # NoResponse
        /\ lastInfo.token = h.token
        /\ lastInfo.was = "expired"
        /\ lastInfo.response.status = 400
    /\ \E h \in StoredHandoffs :
        /\ now < h.storedAt + FixedTTL
        /\ InfoNow(h.token).status = 200

\* C3: the store of a token's payload is complete before the response that
\* carries the token exists: every token handed to the browser is in the
\* Store, and until its time to live ends auth_info_view finds its payload.
C3_StoreBeforeHandoff ==
    \A h \in Handoffs :
        /\ h.token \in DOMAIN store
        /\ now < h.storedAt + FixedTTL =>
              /\ InfoNow(h.token).status = 200
              /\ InfoNow(h.token).value = h.payload

\* C3 witness: a token was handed over while another relay request was
\* between generating its token and storing, and auth_info_view found the
\* handed token's payload.
C3_Witness ==
    /\ \E r \in Slots : req[r].pc = "generated"
    /\ lastInfo # NoResponse
    /\ lastInfo.response.status = 200
    /\ \E h \in Handoffs : h.token = lastInfo.token

\* C4 (as claimed): auth_info_view asked for a token that was never stored,
\* or asked without a token, answers 400 with an empty body.
C4_NeverStoredEmptyBody ==
    (lastInfo # NoResponse /\ velruse_store # None /\ lastInfo.was = "never") =>
        /\ lastInfo.response.status = 400
        /\ lastInfo.response.body = EmptyBody

\* the one answer auth_info_view gives when retrieve raises KeyError
InvalidTokenResponse ==
    [status |-> 400, view |-> "auth_info_view", value |-> PyNone,
     body |-> [json |-> "null"], log |-> <<InvalidTokenLog>>]

\* C5: a token never stored and a token whose time to live has ended get the
\* same answer from auth_info_view (status, body, log entry), whatever the
\* token; a live token gets its whole payload; there is no third outcome.
C5_AbsentExpiredSame ==
    velruse_store # None =>
        /\ \A token \in Tokens \cup {PyNone} :
            /\ KeyState(store, token, now) \in {"never", "expired"} =>
                  InfoNow(token) = InvalidTokenResponse
            /\ KeyState(store, token, now) = "live" =>
                  /\ InfoNow(token).status = 200
                  /\ InfoNow(token).value = store[token].value
        /\ (lastInfo # NoResponse /\ lastInfo.was \in {"never", "expired"}) =>
              lastInfo.response = InvalidTokenResponse

\* C5 witness: the last auth_info request was for an expired token, and a
\* token that was never stored would be answered the same now.
C5_Witness ==
    /\ lastInfo # NoResponse
    /\ lastInfo.was = "expired"
    /\ lastInfo.response.status = 400
    /\ \E token \in Tokens :
        /\ KeyState(store, token, now) = "never"
        /\ InfoNow(token) = lastInfo.response

\* C6: the payload retrievable under a token does not change while the token
\* is live: no step replaces or removes the value of a live key.
C6_OnePayloadPerToken ==
    [][\A k \in DOMAIN store :
          now < store[k].expires =>
              /\ k \in DOMAIN store'
              /\ store'[k].value = store[k].value]_vars

\* C6 witness: two live tokens hold different payloads, the second stored
\* while the first was live.
C6_Witness ==
    \E k1, k2 \in DOMAIN store :
        /\ store[k1].value # store[k2].value
        /\ now < store[k1].expires
        /\ now < store[k2].expires
        /\ store[k1].expires < store[k2].expires

\* settings.get('endpoint') is missing or empty
EndpointUnset ==
    S_endpoint \notin DOMAIN settings \/ settings[S_endpoint] = <<>>

\* C7: with the endpoint setting missing or empty, includeme ends in
\* ConfigurationError: no view is ever registered, make_app never returns
\* and no request is served.
C7_BootstrapFailure ==
    EndpointUnset =>
        /\ views = {}
        /\ app = FALSE
        /\ bootpc \notin {"views", "included", "serving"}
        /\ bootpc = "failed" => error = ConfigurationError
        /\ handed = {}
        /\ lastInfo = NoResponse
        /\ \A r \in Slots : req[r] = Idle

\* C7 witness: includeme failed at the endpoint check, after setup and the
\* provider loop, with an endpoint that is present but empty.
C7_Witness ==
    /\ S_endpoint \in DOMAIN settings
    /\ settings[S_endpoint] = <<>>
    /\ bootpc = "failed"
    /\ error = ConfigurationError
    /\ pending = {}
    /\ storeRegs > 0

\* provider.<name>.impl when it is set to a non-empty value, else <name>
ImplOf(name) ==
    IF ImplKey(name) \in DOMAIN settings /\ settings[ImplKey(name)] # <<>>
    THEN settings[ImplKey(name)]
    ELSE name

\* C8: load_provider for a provider whose impl is no key of settings_adapter
\* raises and leaves the registrations as they were; after the failure
\* includeme has ended in ConfigurationError with no registration made for
\* that provider and no view added.
C8_DispatchFailure ==
    /\ bootpc = "load" =>
          \A provider \in pending :
              ImplOf(provider) \notin DOMAIN settings_adapter =>
                  load_provider(settings, registrations, provider)
                      = [raised |-> TRUE, regs |-> registrations]
    /\ (bootpc = "failed" /\ pending # {}) =>
          /\ error = ConfigurationError
          /\ views = {}
          /\ app = FALSE
          /\ \A i \in 1..Len(registrations) :
                \E name \in find_providers(settings) \ pending :
                    /\ registrations[i].prefix = Prefix(name)
                    /\ ImplOf(name) \in DOMAIN settings_adapter

\* C8 witness: includeme failed on a provider with an unknown impl after it
\* had registered another one.
C8_Witness ==
    /\ bootpc = "failed"
    /\ pending # {}
    /\ Len(registrations) >= 1
    /\ \E provider \in pending : ImplOf(provider) \notin DOMAIN settings_adapter

\* the <name> of every key provider.<name>.<rest>
NamesOfProviderKeys(s) ==
    {SplitFirst(SliceFrom(k, Len(S_provider_dot))) :
        k \in {k \in DOMAIN s :
                 /\ StartsWith(k, S_provider_dot)
                 /\ \E i \in (Len(S_provider_dot) + 1)..Len(k) : k[i] = "."}}

\* C9 (as claimed): the providers includeme gets from find_providers(settings)
\* are exactly the <name> of the keys of the form provider.<name>.<rest>.
C9_FindProviders ==
    (bootpc = "load" /\ registrations = <<>>) =>
        pending = NamesOfProviderKeys(settings)

\* providers the loop of includeme has visited without raising
Visited ==
    IF bootpc \in {"setup", "include"} THEN {}
    ELSE find_providers(settings) \ pending

\* C10: every provider load_provider has been called for is registered
\* exactly once, by the entry point of its impl (provider.<name>.impl, or
\* <name> when that is not set) and with the prefix provider.<name>. ; no
\* other registration is made.
C10_LoadProvider ==
    /\ Len(registrations) = Cardinality(Visited)
    /\ \A name \in Visited :
          /\ ImplOf(name) \in DOMAIN settings_adapter
          /\ Cardinality({i \in 1..Len(registrations) :
                registrations[i] =
                    [loader |-> settings_adapter[ImplOf(name)],
                     prefix |-> S_provider_dot \o name \o S_dot]}) = 1

\* C10 witness: tw1 and tw2 both resolve to twitter and both are registered,
\* each with its own prefix.
C10_Witness ==
    /\ pending = {}
    /\ bootpc # "setup" /\ bootpc # "include"
    /\ \E i, j \in 1..Len(registrations) :
        /\ registrations[i] = [loader |-> "add_twitter_login_from_settings",
                               prefix |-> Prefix(N_tw1)]
        /\ registrations[j] = [loader |-> "add_twitter_login_from_settings",
                               prefix |-> Prefix(N_tw2)]

\* registrations made with the prefix provider.<name>.
RegistrationsOf(name) ==
    {i \in 1..Len(registrations) :
        registrations[i].prefix = S_provider_dot \o name \o S_dot}

\* C11: whenever the views are registered (and when make_app has returned),
\* the provider loop is over, every name of find_providers(settings) has
\* been passed to load_provider exactly once and resolved to an impl of
\* settings_adapter, and no ConfigurationError was raised; a failed dispatch
\* is found only with no view registered and no application returned.
C11_ProvidersValidatedBeforeTraffic ==
    /\ (views # {} \/ app) =>
          /\ pending = {}
          /\ error = NoError
          /\ Len(registrations) = Cardinality(find_providers(settings))
          /\ \A name \in find_providers(settings) :
                /\ ImplOf(name) \in DOMAIN settings_adapter
                /\ Cardinality(RegistrationsOf(name)) = 1
                /\ \A i \in RegistrationsOf(name) :
                      registrations[i].loader = settings_adapter[ImplOf(name)]
    /\ error # NoError => (views = {} /\ app = FALSE /\ bootpc = "failed")

\* C11 witness: make_app has returned with two providers enabled.
C11_Witness ==
    /\ app
    /\ views # {}
    /\ Cardinality(find_providers(settings)) >= 2

\* the setup setting names a function of the host application
CustomSetup == S_setup \in DOMAIN settings /\ settings[S_setup] # <<>>

\* no request has been answered 500 and none is lost to a missing Store
NoServerError ==
    /\ \A h \in handed : h.status # 500
    /\ lastInfo # NoResponse => lastInfo.response.status # 500

\* C12 (as claimed): once a view is registered, registry.velruse_store has
\* been assigned exactly once, whichever setup function ran (default_setup
\* or the function the setup setting names), and every request reads a
\* defined store.
C12_StoreSetOnceAnySetup ==
    views # {} =>
        /\ storeRegs = 1
        /\ velruse_store # None
        /\ NoServerError

\* C14: reading does not consume.  A step that answers an auth_info request
\* leaves the Store as it was, so every token is answered after it as it
\* would have been before it; and a key that was retrievable stops being so
\* only by the clock reaching its expiry.
C14_ReadsDoNotConsume ==
    [][/\ lastInfo' # lastInfo =>
            /\ store' = store
            /\ \A token \in Tokens \cup {PyNone} :
                  auth_info_response(velruse_store', store', token, now')
                      = InfoNow(token)
            /\ lastInfo'.was = "live" =>
                  /\ lastInfo'.response.status = 200
                  /\ StoreRetrieve(store', lastInfo'.token, now')
                        = lastInfo'.response.value
       /\ \A k \in DOMAIN store :
            (StoreRetrieve(store, k, now) # KeyError
                /\ StoreRetrieve(store', k, now') = KeyError) =>
                    /\ now < store[k].expires
                    /\ now' >= store[k].expires
                    /\ k \in DOMAIN store'
                    /\ store'[k] = store[k]]_vars

\* C14 witness: a token stored 299 seconds ago was read and answered with
\* its payload, and a further read now gets the same answer.
C14_Witness ==
    /\ lastInfo # NoResponse
    /\ lastInfo.was = "live"
    /\ lastInfo.response.status = 200
    /\ \E h \in Handoffs :
        /\ h.token = lastInfo.token
        /\ now = h.storedAt + FixedTTL - 1
        /\ InfoNow(h.token) = lastInfo.response

\* every key a retrieve can be asked for
InfoKeys == Tokens \cup {PyNone}

\* C15: tokens are independent.  When a relay request stores under its token
\* B, every other token A is answered afterwards as before; a step that
\* answers an auth_info request (found or 400) changes the answer for no
\* token and leaves every relay request in flight where it was; and no step
\* other than the clock changes the answer for more than one token.
C15_TokenIndependence ==
    [][/\ \A r \in Slots :
            (req[r].pc = "generated" /\ req'[r].pc = "stored") =>
                \A A \in InfoKeys \ {req[r].token} :
                    auth_info_response(velruse_store', store', A, now')
                        = InfoNow(A)
       /\ lastInfo' # lastInfo =>
            /\ req' = req
            /\ handed' = handed
            /\ \A A \in InfoKeys :
                  auth_info_response(velruse_store', store', A, now')
                      = InfoNow(A)
       /\ (now' = now /\ app) =>
            Cardinality({A \in InfoKeys :
                auth_info_response(velruse_store', store', A, now')
                    # InfoNow(A)}) <= 1]_vars

\* C15 witness: token A was handed over and is found; a request for another
\* token has just been answered 400 and a relay request for a third party
\* has stored under its own token B, which is not A.
C15_Witness ==
    /\ lastInfo # NoResponse
    /\ lastInfo.response.status = 400
    /\ \E h \in Handoffs, r \in Slots :
        /\ req[r].pc = "stored"
        /\ req[r].token # h.token
        /\ lastInfo.token # h.token
        /\ InfoNow(h.token).status = 200
        /\ InfoNow(h.token).value = h.payload

\* relay requests that have generated a token and not yet answered
InFlight == {r \in Slots : req[r] # Idle}

\* what the relay requests that have stored put in the Store, with the view
StoredByView ==
    {[view |-> req[r].view, token |-> req[r].token, payload |-> req[r].payload]
        : r \in {r \in Slots : req[r].pc = "stored"}}
    \cup
    {[view |-> h.view, token |-> h.body.hidden_token, payload |-> h.payload]
        : h \in {h \in handed : h.status = 200}}

UnknownImpl ==
    \E name \in find_providers(settings) :
        ImplOf(name) \notin DOMAIN settings_adapter

\* the order of includeme's steps, read off the state: providers are loaded
\* after setup and the includes, views are added after the loads and the
\* endpoint check; an unknown impl fails before the endpoint check, a
\* missing endpoint fails after every requested provider was registered
StepOrder ==
    /\ bootpc # "setup" => (CustomSetup \/ storeRegs = 1)
    /\ registrations # <<>> =>
          /\ bootpc \notin {"setup", "include"}
          /\ included = DOMAIN settings_adapter
    /\ views # {} =>
          /\ included = DOMAIN settings_adapter
          /\ pending = {}
          /\ ~EndpointUnset
          /\ error = NoError
    /\ (bootpc = "failed" /\ UnknownImpl) =>
          /\ pending # {}
          /\ views = {}
    /\ (bootpc = "failed" /\ ~UnknownImpl) =>
          /\ EndpointUnset
          /\ included = DOMAIN settings_adapter
          /\ pending = {}
          /\ Len(registrations) = Cardinality(find_providers(settings))
          /\ views = {}

\* C17: includeme runs setup, includes the provider modules, loads every
\* requested provider, checks endpoint, registers the views, in this order:
\* an unknown impl raises before the endpoint check and before any view;
\* when only endpoint is missing the error is raised after setup has run,
\* the store being registered, and after every requested provider was
\* registered.
C17_BootstrapOrder ==
    /\ StepOrder
    /\ (bootpc = "failed" /\ ~UnknownImpl) =>
          /\ storeRegs >= 1
          /\ velruse_store # None

\* C18: the views exist only after the endpoint check has passed, so every
\* execution of auth_complete_view or auth_denied_view reads an endpoint
\* that is present and non-empty, and every form handed out has it as its
\* action.
C18_EndpointAtRequestTime ==
    /\ views # {} =>
          /\ S_endpoint \in DOMAIN settings
          /\ settings[S_endpoint] # <<>>
    /\ \A r \in InFlight :
          /\ req[r].endpoint # None
          /\ req[r].endpoint # <<>>
          /\ req[r].endpoint = settings[S_endpoint]
    /\ \A h \in handed :
          h.status = 200 =>
              /\ h.body.action # None
              /\ h.body.action # <<>>
              /\ h.body.action = settings[S_endpoint]

\* C18 witness: a form with the configured endpoint as its action has been
\* handed out while another relay request is running.
C18_Witness ==
    /\ \E h \in handed : h.status = 200 /\ h.body.action = V_url
    /\ \E r \in InFlight : req[r].endpoint = V_url

\* the settings without one key
WithoutKey(s, k) == [x \in DOMAIN s \ {k} |-> s[x]]

\* provider.<name>.impl is present and empty
EmptyImpl(name) ==
    /\ ImplKey(name) \in DOMAIN settings
    /\ settings[ImplKey(name)] = <<>>

\* C19: for a provider whose provider.<name>.impl is present and empty,
\* load_provider gives what it gives on the same settings without that key:
\* a registration of the loader of <name> with the prefix of <name> when
\* <name> is in the registry, else ConfigurationError and no registration;
\* once includeme has loaded such a provider it is registered that way once.
C19_EmptyImplLikeAbsent ==
    bootpc \notin {"setup", "include"} =>
        \A name \in find_providers(settings) :
            EmptyImpl(name) =>
                /\ name \in pending =>
                      LET got == load_provider(settings, registrations, name)
                          absent == load_provider(
                                        WithoutKey(settings, ImplKey(name)),
                                        registrations, name)
                      IN  /\ got = absent
                          /\ got = IF name \in DOMAIN settings_adapter
                                   THEN [raised |-> FALSE,
                                         regs |-> Append(registrations,
                                             [loader |-> settings_adapter[name],
                                              prefix |-> Prefix(name)])]
                                   ELSE [raised |-> TRUE,
                                         regs |-> registrations]
                /\ name \notin pending =>
                      /\ name \in DOMAIN settings_adapter
                      /\ Cardinality(RegistrationsOf(name)) = 1
                      /\ \A i \in RegistrationsOf(name) :
                            registrations[i].loader = settings_adapter[name]

\* C19 witness: facebook, requested with an empty provider.facebook.impl,
\* has been registered as facebook, and includeme has failed on tw, whose
\* empty provider.tw.impl names no registry entry.
C19_Witness ==
    /\ EmptyImpl(S_facebook)
    /\ \E i \in 1..Len(registrations) :
          registrations[i] = [loader |-> settings_adapter[S_facebook],
                              prefix |-> Prefix(S_facebook)]
    /\ EmptyImpl(N_tw)
    /\ N_tw \in pending
    /\ bootpc = "failed"

====
